---- MODULE Spec2Model ----
(***************************************************************************)
(* Model of the chat / file-sharing service in src/app.py.                 *)
(*                                                                         *)
(* Shared state lives in three external stores: the message table (db),    *)
(* the upload directory (fs) and the Redis cache entry 'messages' (cache). *)
(* Requests are handled concurrently (eventlet green threads, and several  *)
(* workers may share the Redis cache and message queue), so every call on  *)
(* a store is one atomic step and the steps of different requests          *)
(* interleave freely.  Characters are Unicode code points, strings are     *)
(* sequences of code points, and Python's None is the empty tuple while a  *)
(* present value x is <<x>>.                                               *)
(***************************************************************************)
EXTENDS Integers, Sequences, FiniteSets, TLC

VARIABLES
    db,         \* rows of the message table
    fs,         \* upload directory: stored name -> bytes (token of the writing request)
    cache,      \* Redis entry 'messages': None or Some([messages, exp])
    published,  \* update_messages events emitted so far, oldest first
    now,        \* wall clock, in seconds
    req,        \* per worker: the request it handles (position, locals, response)
    started,    \* number of requests received so far
    quota,      \* number of requests still to come
    hist,       \* history: every committed table state and its commit time
    acked,      \* history: newest table version whose mutation has been answered
    creator,    \* history: live message id -> token of the upload that made it
    removed,    \* history: tokens of uploads whose message has been deleted
    nfaults     \* injected store failures so far

vars == <<db, fs, cache, published, now, req, started, quota, hist, acked, creator, removed, nfaults>>

----------------------------------------------------------------------------
(* Bounds of the model *)

MaxReq == 3          \* requests received under Spec
MaxPairReq == 2      \* requests received under SpecPair
MaxClockReq == 2     \* requests received under SpecClock
MaxSeqReq == 4       \* requests received under SpecSeq
MaxFormReq == 1      \* requests received under SpecForms
MaxFilesReq == 3     \* requests received under SpecFiles
MaxListReq == 2      \* requests received under SpecList
MaxFileNumber == 4   \* largest n sent to /d<n>
MaxNameLen == 3      \* longest name given to the sanitizer under SpecSanitize
MaxTarget == 2       \* message ids that toggle_pin / delete_message are sent
MaxTime == 80        \* the clock stops here
TickStep == 40       \* seconds per clock step
MaxFaults == 1       \* store failures injected in one run

Workers == {1, 2}    \* requests in progress at the same time

(* Program constants *)

CACHE_TIMEOUT == 60
UTC8 == 28800

DOT == 46
DASH == 45
UNDERSCORE == 95
LPAREN == 40
RPAREN == 41
SLASH == 47
SPACE == 32
DIGIT0 == 48
NEWLINE == 10
LOWER_D == 100

(* what the upload directory holds under a name that is a subdirectory,    *)
(* not a regular file                                                      *)
Directory == -1

EmptyFn == [x \in {} |-> 0]
Without(f, k) == [x \in DOMAIN f \ {k} |-> f[x]]

None == <<>>
Some(x) == <<x>>
Val(o) == o[1]

Requests == Workers

----------------------------------------------------------------------------
(* Pure helpers *)

AllowedChars ==
    (97..122) \cup (65..90) \cup (48..57) \cup (19968..40869)
        \cup {DOT, DASH, UNDERSCORE}

IsAllowed(c) == c \in AllowedChars

(* variant: a disallowed character is replaced by "_" instead of removed *)
custom_secure_filename_underscores(filename) ==
    [i \in 1..Len(filename) |->
        IF IsAllowed(filename[i]) THEN filename[i] ELSE UNDERSCORE]

custom_secure_filename(filename) == SelectSeq(filename, IsAllowed)

Whitespace == {SPACE, 9, 10, 11, 12, 13}

(* text.strip() is falsy exactly when every character is whitespace *)
strip_is_empty(text) == \A i \in 1..Len(text) : text[i] \in Whitespace

LastIndexOf(s, c) ==
    IF \E i \in 1..Len(s) : s[i] = c
    THEN CHOOSE i \in 1..Len(s) : s[i] = c /\ \A j \in (i+1)..Len(s) : s[j] # c
    ELSE 0

(* file.filename.split('.')[-1] *)
split_last(s) == SubSeq(s, LastIndexOf(s, DOT) + 1, Len(s))

(* os.path.splitext: <<root, ext>> *)
splitext(p) ==
    LET sepIndex == LastIndexOf(p, SLASH)
        dotIndex == LastIndexOf(p, DOT)
    IN  IF dotIndex > sepIndex
           /\ \E i \in (sepIndex+1)..(dotIndex-1) : p[i] # DOT
        THEN <<SubSeq(p, 1, dotIndex-1), SubSeq(p, dotIndex, Len(p))>>
        ELSE <<p, <<>>>>

RECURSIVE str(_)
str(n) == IF n < 10 THEN <<DIGIT0 + n>>
          ELSE str(n \div 10) \o <<DIGIT0 + (n % 10)>>

(* f"{base}({counter}){ext}" *)
numbered_name(base, counter, ext) ==
    base \o <<LPAREN>> \o str(counter) \o <<RPAREN>> \o ext

(* os.path.exists(os.path.join(UPLOAD_FOLDER, name)): the joined path of   *)
(* "", "." and ".." is the upload directory itself or its parent.          *)
path_exists(store, name) ==
    name \in DOMAIN store \/ name \in {<<>>, <<DOT>>, <<DOT, DOT>>}

(* os.path.isfile(os.path.join(UPLOAD_DIRECTORY, name)) *)
isfile(store, name) == name \in DOMAIN store /\ store[name] # Directory

(* os.listdir(UPLOAD_DIRECTORY): every entry once, in an order that the    *)
(* platform chooses                                                        *)
listdir(store) ==
    { f \in [1..Cardinality(DOMAIN store) -> DOMAIN store] :
        \A i, j \in 1..Cardinality(DOMAIN store) : i # j => f[i] # f[j] }

(* "\n".join(lines) *)
RECURSIVE join(_)
join(lines) ==
    IF lines = <<>> THEN <<>>
    ELSE IF Len(lines) = 1 THEN lines[1]
    ELSE lines[1] \o <<NEWLINE>> \o join(Tail(lines))

(* f"d{i}. {filename}" *)
list_line(i, filename) == <<LOWER_D>> \o str(i) \o <<DOT, SPACE>> \o filename

(* the loop of lines 267-273 from position i of the enumeration on *)
RECURSIVE list_files_lines(_, _, _)
list_files_lines(store, entries, i) ==
    IF i > Len(entries) THEN <<>>
    ELSE (IF isfile(store, entries[i])
          THEN <<list_line(i, entries[i])>> ELSE <<>>)
         \o list_files_lines(store, entries, i + 1)

(* "File not found" *)
FileNotFound == <<70, 105, 108, 101, SPACE, 110, 111, 116, SPACE, 102, 111, 117, 110, 100>>

(* bytes carried by the file part of request r, and their length *)
SizeOf(data) == data + 1

(* A DateTime is <<seconds, microseconds>>; successive commits within one  *)
(* second carry increasing microseconds.                                   *)
Later(t, u) == t[1] > u[1] \/ (t[1] = u[1] /\ t[2] >= u[2])

(* strftime('%Y-%m-%d %H:%M:%S'): day, hour, minute, second; the           *)
(* microseconds are not printed                                            *)
strftime(t) ==
    <<t[1] \div 86400, (t[1] % 86400) \div 3600, (t[1] % 3600) \div 60, t[1] % 60>>

to_dict(m) ==
    [id |-> m.id, text |-> m.text, filename |-> m.filename,
     original_filename |-> m.original_filename, file_size |-> m.file_size,
     timestamp |-> strftime(m.timestamp), is_pinned |-> m.is_pinned]

(* Message.query.order_by(Message.timestamp.desc()).all(): every row once, *)
(* newest first; the order of rows with equal timestamps is unspecified.   *)
OrderedRows(rows) ==
    { f \in [1..Cardinality(rows) -> rows] :
        /\ \A i, j \in 1..Cardinality(rows) : i # j => f[i] # f[j]
        /\ \A i, j \in 1..Cardinality(rows) : i < j => Later(f[i].timestamp, f[j].timestamp) }

ListAll(rows) == { [i \in 1..Len(f) |-> to_dict(f[i])] : f \in OrderedRows(rows) }

Ids(rows) == { m.id : m \in rows }

MaxOf(S) == CHOOSE x \in S : \A y \in S : y <= x

(* INTEGER PRIMARY KEY without AUTOINCREMENT: largest rowid in use plus one *)
NextId(rows) == IF rows = {} THEN 1 ELSE MaxOf(Ids(rows)) + 1

RowOf(rows, id) == CHOOSE m \in rows : m.id = id

----------------------------------------------------------------------------
(* Inputs *)

NameA == <<97, DOT, 116>>          \* "a.t"
TextH == <<104>>                   \* "h"

(* form fields of POST /upload: text, client filename of the file part     *)
(* (None: no file part) and new_filename (None: not supplied)              *)
UploadInputs ==
    { [text |-> TextH,     file |-> None,        new_filename |-> None],
      [text |-> <<SPACE>>, file |-> Some(NameA), new_filename |-> None],
      [text |-> <<>>,      file |-> Some(NameA), new_filename |-> Some(<<97, SLASH>>)] }

(* form fields for the uploads of SpecForms: every combination of a text,  *)
(* a file part and a new_filename                                          *)
FormTexts == { <<>>, <<SPACE>>, TextH }

FormFiles ==
    { None, Some(<<>>), Some(NameA),
      Some(<<97>>),                        \* "a"
      Some(<<97, DOT>>),                   \* "a."
      Some(<<97, DOT, 98, DOT, 116>>),     \* "a.b.t"
      Some(<<97, 63, DOT, 116>>),          \* "a?.t"
      Some(<<63>>),                        \* "?"
      Some(<<116, DOT, 97, SLASH, 98>>) }  \* "t.a/b"

FormNewFilenames ==
    { None, Some(<<>>),
      Some(<<98>>),                        \* "b"
      Some(<<98, SPACE, 99>>),             \* "b c"
      Some(<<63>>) }                       \* "?"

FormInputs ==
    { [text |-> t, file |-> f, new_filename |-> n] :
        t \in FormTexts, f \in FormFiles, n \in FormNewFilenames }

Targets == 1..MaxTarget

(* a message that an earlier run left behind, with its attachment *)
OldMessage ==
    [id |-> 1, text |-> None, filename |-> Some(NameA),
     original_filename |-> Some(NameA), file_size |-> Some(SizeOf(0)),
     timestamp |-> <<UTC8, 0>>, is_pinned |-> FALSE]

IdleReq ==
    [kind |-> "none", pc |-> "idle", token |-> 0, message_id |-> 0,
     text |-> None, filename |-> None, original_filename |-> None,
     new_filename |-> None, file_size |-> None, save_path |-> <<>>, base |-> <<>>, ext |-> <<>>,
     counter |-> 0, message |-> None, messages |-> <<>>,
     status |-> 0, body |-> None, failed |-> "none",
     floor |-> 0, commit |-> 0, qidx |-> 0,
     nInvalidate |-> 0, nPublish |-> 0, nStoreOps |-> 0, nRepoReads |-> 0,
     nRepoWrites |-> 0, attached |-> FALSE, candidate |-> <<>>,
     overwrote |-> FALSE, file_number |-> 0, listdir |-> <<>>]

Start(n) ==
    /\ quota = n
    /\ db = {OldMessage}
    /\ fs = (NameA :> 0)
    /\ creator = (1 :> 0)
    /\ cache = None
    /\ published = <<>>
    /\ now = 0
    /\ req = [r \in Requests |-> IdleReq]
    /\ started = 0
    /\ hist = <<[db |-> db, at |-> 0]>>
    /\ acked = 1
    /\ removed = {}
    /\ nfaults = 0

Init == Start(MaxReq)

Free(r) == req[r].pc \in {"idle", "done"}

(* a request is taken by the first free worker, replacing the record of    *)
(* the request that worker answered before                                *)
CanStart(r) ==
    /\ Free(r)
    /\ \A q \in Requests : q < r => ~Free(q)
    /\ quota > 0

(* the handler returns: its locals are gone, the response and the history  *)
(* of what the request did remain                                          *)
Respond(rq, status, body) ==
    [IdleReq EXCEPT !.kind = rq.kind, !.pc = "done", !.token = rq.token,
                    !.message_id = rq.message_id,
                    !.status = status, !.body = body,
                    !.floor = rq.floor, !.commit = rq.commit, !.qidx = rq.qidx,
                    !.nInvalidate = rq.nInvalidate, !.nPublish = rq.nPublish,
                    !.nStoreOps = rq.nStoreOps, !.nRepoReads = rq.nRepoReads,
                    !.nRepoWrites = rq.nRepoWrites,
                    !.attached = rq.attached, !.overwrote = rq.overwrote,
                    !.file_number = rq.file_number, !.listdir = rq.listdir]

----------------------------------------------------------------------------
(* Passage of time; Redis drops the entry once its timeout has elapsed *)

Tick ==
    /\ now + TickStep <= MaxTime
    /\ now' = now + TickStep
    /\ cache' = IF cache # None /\ Val(cache).exp <= now' THEN None ELSE cache
    /\ UNCHANGED <<db, fs, published, req, hist, acked, creator, removed, nfaults, started, quota>>

----------------------------------------------------------------------------
(* GET / and GET /messages: get_cached_messages *)

StartRead(r) ==
    /\ CanStart(r)
    /\ req' = [req EXCEPT ![r] = [IdleReq EXCEPT !.kind = "read", !.pc = "L113",
                                                 !.token = started + 1,
                                                 !.floor = acked]]
    /\ started' = started + 1
    /\ quota' = quota - 1
    /\ UNCHANGED <<db, fs, cache, published, now, hist, acked, creator, removed, nfaults>>

(* variant: the cached entry is ignored and every Read goes to the table *)
get_cached_messages_get_always_miss(r) ==
    /\ req[r].pc = "L113"
    /\ req' = [req EXCEPT ![r].pc = "L115"]
    /\ UNCHANGED <<db, fs, cache, published, now, hist, acked, creator, removed, nfaults, started, quota>>

get_cached_messages_get(r) ==
    /\ req[r].pc = "L113"
    /\ req' = [req EXCEPT ![r] =
                 IF cache # None
                 THEN Respond(@, 200, Some(Val(cache).messages))
                 ELSE [@ EXCEPT !.pc = "L115"]]
    /\ UNCHANGED <<db, fs, cache, published, now, hist, acked, creator, removed, nfaults, started, quota>>

get_cached_messages_query(r) ==
    /\ req[r].pc = "L115"
    /\ \E l \in ListAll(db) :
         req' = [req EXCEPT ![r].pc = "L118", ![r].messages = l,
                            ![r].qidx = Len(hist),
                            ![r].nRepoReads = @ + 1]
    /\ UNCHANGED <<db, fs, cache, published, now, hist, acked, creator, removed, nfaults, started, quota>>

get_cached_messages_set(r) ==
    /\ req[r].pc = "L118"
    /\ cache' = Some([messages |-> req[r].messages, exp |-> now + CACHE_TIMEOUT])
    /\ req' = [req EXCEPT ![r] = Respond(@, 200, Some(req[r].messages))]
    /\ UNCHANGED <<db, fs, published, now, hist, acked, creator, removed, nfaults, started, quota>>

----------------------------------------------------------------------------
(* clear_message_cache, called by every mutation after its commit *)

clear_message_cache_delete(r) ==
    /\ req[r].pc = "L125"
    /\ cache' = None
    /\ req' = [req EXCEPT ![r].pc = "L126", ![r].nInvalidate = @ + 1]
    /\ UNCHANGED <<db, fs, published, now, hist, acked, creator, removed, nfaults, started, quota>>

(* variant: the list is taken from the table as it stood before the        *)
(* request's own commit                                                    *)
clear_message_cache_query_before_commit(r) ==
    /\ req[r].pc = "L126"
    /\ \E l \in ListAll(hist[IF req[r].commit > 1 THEN req[r].commit - 1 ELSE 1].db) :
         req' = [req EXCEPT ![r].pc = "L128", ![r].messages = l,
                            ![r].qidx = Len(hist),
                            ![r].nRepoReads = @ + 1]
    /\ UNCHANGED <<db, fs, cache, published, now, hist, acked, creator, removed, nfaults, started, quota>>

clear_message_cache_query(r) ==
    /\ req[r].pc = "L126"
    /\ \E l \in ListAll(db) :
         req' = [req EXCEPT ![r].pc = "L128", ![r].messages = l,
                            ![r].qidx = Len(hist),
                            ![r].nRepoReads = @ + 1]
    /\ UNCHANGED <<db, fs, cache, published, now, hist, acked, creator, removed, nfaults, started, quota>>

(* the repository is unreachable: the query raises and the request ends 500 *)
clear_message_cache_query_fails(r) ==
    /\ req[r].pc = "L126"
    /\ nfaults < MaxFaults
    /\ nfaults' = nfaults + 1
    /\ req' = [req EXCEPT ![r] = [Respond(@, 500, None) EXCEPT !.failed = "rebuild"]]
    /\ UNCHANGED <<db, fs, cache, published, now, hist, acked, creator, removed, started, quota>>

clear_message_cache_set(r) ==
    /\ req[r].pc = "L128"
    /\ cache' = Some([messages |-> req[r].messages, exp |-> now + CACHE_TIMEOUT])
    /\ req' = [req EXCEPT ![r].pc = "L129"]
    /\ UNCHANGED <<db, fs, published, now, hist, acked, creator, removed, nfaults, started, quota>>

PinnedIn(messages, id) ==
    LET i == CHOOSE i \in 1..Len(messages) : messages[i].id = id
    IN  messages[i].is_pinned

(* socketio.emit, then the handler's return statement.  toggle_pin reads   *)
(* message.is_pinned, which the query of line 126 refreshed; when that     *)
(* query did not return the row the attribute is still expired and line    *)
(* 216 reloads it.                                                         *)
clear_message_cache_emit(r) ==
    /\ req[r].pc = "L129"
    /\ published' = Append(published, [by |-> req[r].token, messages |-> req[r].messages])
    /\ LET rq == [req[r] EXCEPT !.nPublish = @ + 1]
           refreshed == \E i \in 1..Len(rq.messages) :
                           rq.messages[i].id = rq.message_id
       IN  IF rq.kind = "toggle_pin" /\ ~refreshed
           THEN /\ req' = [req EXCEPT ![r] = [rq EXCEPT !.pc = "L216"]]
                /\ acked' = acked
           ELSE /\ req' = [req EXCEPT ![r] =
                     Respond(rq, 200,
                        IF rq.kind = "toggle_pin"
                        THEN Some([success |-> TRUE,
                                   is_pinned |-> PinnedIn(rq.messages, rq.message_id)])
                        ELSE Some([success |-> TRUE]))]
                /\ acked' = IF rq.commit > acked THEN rq.commit ELSE acked
    /\ UNCHANGED <<db, fs, cache, now, hist, creator, removed, nfaults, started, quota>>

(* the message queue is unreachable: emit raises and the request ends 500 *)
clear_message_cache_emit_fails(r) ==
    /\ req[r].pc = "L129"
    /\ nfaults < MaxFaults
    /\ nfaults' = nfaults + 1
    /\ req' = [req EXCEPT ![r] = [Respond(@, 500, None) EXCEPT !.failed = "publish"]]
    /\ UNCHANGED <<db, fs, cache, published, now, hist, acked, creator, removed, started, quota>>

----------------------------------------------------------------------------
(* POST /upload *)

(* lines 157-176 for the form fields inp *)
upload_message_form(r, inp) ==
    /\ CanStart(r)
    /\   LET has_file == inp.file # None /\ Val(inp.file) # <<>>
             rename   == inp.new_filename # None /\ Val(inp.new_filename) # <<>>
             name     == IF rename
                         THEN custom_secure_filename(Val(inp.new_filename))
                                  \o <<DOT>> \o split_last(Val(inp.file))
                         ELSE custom_secure_filename(Val(inp.file))
             text     == IF strip_is_empty(inp.text) THEN None ELSE Some(inp.text)
         IN  req' = [req EXCEPT ![r] =
                 IF has_file
                 THEN [IdleReq EXCEPT !.kind = "upload", !.pc = "L177",
                                      !.token = started + 1,
                                      !.text = text,
                                      !.original_filename = inp.file,
                                      !.new_filename = inp.new_filename,
                                      !.filename = Some(name),
                                      !.save_path = name,
                                      !.attached = TRUE,
                                      !.candidate = name]
                 ELSE [IdleReq EXCEPT !.kind = "upload", !.pc = "L198",
                                      !.token = started + 1,
                                      !.text = text,
                                      !.new_filename = inp.new_filename]]
    /\ started' = started + 1
    /\ quota' = quota - 1
    /\ UNCHANGED <<db, fs, cache, published, now, hist, acked, creator, removed, nfaults>>

upload_message_start(r) == \E inp \in UploadInputs : upload_message_form(r, inp)

(* variant: the counter starts at 2 *)
upload_message_exists_from_two(r) ==
    /\ req[r].pc = "L177"
    /\ req' = [req EXCEPT ![r] =
                 IF path_exists(fs, req[r].save_path)
                 THEN [@ EXCEPT !.pc = "L180",
                                !.base = splitext(Val(req[r].filename))[1],
                                !.ext = splitext(Val(req[r].filename))[2],
                                !.counter = 2,
                                !.nStoreOps = @ + 1]
                 ELSE [@ EXCEPT !.pc = "L187", !.nStoreOps = @ + 1]]
    /\ UNCHANGED <<db, fs, cache, published, now, hist, acked, creator, removed, nfaults, started, quota>>

upload_message_exists(r) ==
    /\ req[r].pc = "L177"
    /\ req' = [req EXCEPT ![r] =
                 IF path_exists(fs, req[r].save_path)
                 THEN [@ EXCEPT !.pc = "L180",
                                !.base = splitext(Val(req[r].filename))[1],
                                !.ext = splitext(Val(req[r].filename))[2],
                                !.counter = 1,
                                !.nStoreOps = @ + 1]
                 ELSE [@ EXCEPT !.pc = "L187", !.nStoreOps = @ + 1]]
    /\ UNCHANGED <<db, fs, cache, published, now, hist, acked, creator, removed, nfaults, started, quota>>

upload_message_loop(r) ==
    /\ req[r].pc = "L180"
    /\ req' = [req EXCEPT ![r] =
                 IF path_exists(fs, req[r].save_path)
                 THEN [@ EXCEPT !.save_path =
                                    numbered_name(req[r].base, req[r].counter, req[r].ext),
                                !.counter = @ + 1,
                                !.nStoreOps = @ + 1]
                 ELSE [@ EXCEPT !.pc = "L187",
                                !.filename = Some(req[r].save_path),
                                !.nStoreOps = @ + 1]]
    /\ UNCHANGED <<db, fs, cache, published, now, hist, acked, creator, removed, nfaults, started, quota>>

(* file.save(save_path) opens the path for writing and replaces whatever   *)
(* is there; a name with a directory part has no directory to go to.       *)
upload_message_save(r) ==
    /\ req[r].pc = "L187"
    /\ IF \E i \in 1..Len(req[r].save_path) : req[r].save_path[i] = SLASH
       THEN /\ req' = [req EXCEPT ![r] = [Respond(@, 500, None) EXCEPT !.failed = "save"]]
            /\ fs' = fs
       ELSE /\ fs' = [n \in DOMAIN fs \cup {req[r].save_path} |->
                        IF n = req[r].save_path THEN req[r].token ELSE fs[n]]
            /\ req' = [req EXCEPT ![r].pc = "L188", ![r].nStoreOps = @ + 1,
                                  ![r].overwrote = req[r].save_path \in DOMAIN fs]
    /\ UNCHANGED <<db, cache, published, now, hist, acked, creator, removed, nfaults, started, quota>>

(* variant: the handler catches the error of file.save and goes on to the  *)
(* insert                                                                  *)
upload_message_save_fails_then_inserts(r) ==
    /\ req[r].pc = "L187"
    /\ nfaults < MaxFaults
    /\ nfaults' = nfaults + 1
    /\ req' = [req EXCEPT ![r].pc = "L198", ![r].failed = "save"]
    /\ UNCHANGED <<db, fs, cache, published, now, hist, acked, creator, removed, started, quota>>

(* file.save raises (disk full, no permission): the exception leaves the   *)
(* handler and the request ends 500; the file may or may not have been     *)
(* created by then                                                         *)
upload_message_save_fails(r) ==
    /\ req[r].pc = "L187"
    /\ nfaults < MaxFaults
    /\ nfaults' = nfaults + 1
    /\ \E created \in BOOLEAN :
         fs' = IF created /\ ~path_exists(fs, req[r].save_path)
               THEN [n \in DOMAIN fs \cup {req[r].save_path} |->
                       IF n = req[r].save_path THEN req[r].token ELSE fs[n]]
               ELSE fs
    /\ req' = [req EXCEPT ![r] = [Respond(@, 500, None) EXCEPT !.failed = "save"]]
    /\ UNCHANGED <<db, cache, published, now, hist, acked, creator, removed, started, quota>>

(* variant: the size is not recorded *)
upload_message_getsize_unset(r) ==
    /\ req[r].pc = "L188"
    /\ req' = [req EXCEPT ![r].pc = "L198", ![r].nStoreOps = @ + 1]
    /\ UNCHANGED <<db, fs, cache, published, now, hist, acked, creator, removed, nfaults, started, quota>>

upload_message_getsize(r) ==
    /\ req[r].pc = "L188"
    /\ req' = [req EXCEPT ![r] =
                 IF req[r].save_path \in DOMAIN fs
                 THEN [@ EXCEPT !.pc = "L198",
                                !.file_size = Some(SizeOf(fs[req[r].save_path])),
                                !.nStoreOps = @ + 1]
                 ELSE [Respond(@, 500, None) EXCEPT !.failed = "getsize",
                                                    !.nStoreOps = @ + 1]]
    /\ UNCHANGED <<db, fs, cache, published, now, hist, acked, creator, removed, nfaults, started, quota>>

upload_message_commit(r) ==
    /\ req[r].pc = "L198"
    /\ LET new_message ==
             [id |-> NextId(db), text |-> req[r].text,
              filename |-> req[r].filename,
              original_filename |-> req[r].original_filename,
              file_size |-> req[r].file_size,
              timestamp |-> <<now + UTC8, Len(hist)>>, is_pinned |-> FALSE]
       IN  /\ db' = db \cup {new_message}
           /\ creator' = [i \in DOMAIN creator \cup {new_message.id} |->
                            IF i = new_message.id THEN req[r].token ELSE creator[i]]
    /\ hist' = Append(hist, [db |-> db', at |-> now])
    /\ req' = [req EXCEPT ![r].pc = "L125", ![r].commit = Len(hist'),
                          ![r].nRepoWrites = @ + 1]
    /\ UNCHANGED <<fs, cache, published, now, acked, removed, nfaults, started, quota>>

----------------------------------------------------------------------------
(* POST /toggle_pin/<id> *)

(* variant: an unknown id still runs clear_message_cache before the 404 *)
toggle_pin_get_invalidates(r) ==
    /\ CanStart(r)
    /\ \E message_id \in Targets :
         req' = [req EXCEPT ![r] =
                 IF message_id \in Ids(db)
                 THEN [IdleReq EXCEPT !.kind = "toggle_pin", !.pc = "L212",
                                      !.token = started + 1,
                                      !.message_id = message_id,
                                      !.message = Some(RowOf(db, message_id)),
                                      !.nRepoReads = 1]
                 ELSE [IdleReq EXCEPT !.kind = "toggle_pin", !.pc = "L125",
                                      !.token = started + 1,
                                      !.message_id = message_id,
                                      !.nRepoReads = 1]]
    /\ started' = started + 1
    /\ quota' = quota - 1
    /\ UNCHANGED <<db, fs, cache, published, now, hist, acked, creator, removed, nfaults>>

toggle_pin_get(r) ==
    /\ CanStart(r)
    /\ \E message_id \in Targets :
         req' = [req EXCEPT ![r] =
                 IF message_id \in Ids(db)
                 THEN [IdleReq EXCEPT !.kind = "toggle_pin", !.pc = "L212",
                                      !.token = started + 1,
                                      !.message_id = message_id,
                                      !.message = Some(RowOf(db, message_id)),
                                      !.nRepoReads = 1]
                 ELSE [Respond(IdleReq, 404, None) EXCEPT
                                      !.kind = "toggle_pin",
                                      !.token = started + 1,
                                      !.message_id = message_id,
                                      !.nRepoReads = 1]]
    /\ started' = started + 1
    /\ quota' = quota - 1
    /\ UNCHANGED <<db, fs, cache, published, now, hist, acked, creator, removed, nfaults>>

(* variant: the UPDATE also stamps the row with the time of the change *)
toggle_pin_commit_stamps(r) ==
    /\ req[r].pc = "L212"
    /\ IF req[r].message_id \in Ids(db)
       THEN LET cur == RowOf(db, req[r].message_id)
                upd == [cur EXCEPT !.is_pinned = ~Val(req[r].message).is_pinned,
                                   !.timestamp = <<now + UTC8, Len(hist)>>]
            IN  /\ db' = (db \ {cur}) \cup {upd}
                /\ hist' = Append(hist, [db |-> db', at |-> now])
                /\ req' = [req EXCEPT ![r].pc = "L125", ![r].commit = Len(hist'),
                                      ![r].nRepoWrites = @ + 1]
       ELSE /\ req' = [req EXCEPT ![r] = [Respond(@, 500, None) EXCEPT !.failed = "stale"]]
            /\ UNCHANGED <<db, hist>>
    /\ UNCHANGED <<fs, cache, published, now, acked, creator, removed, nfaults, started, quota>>

(* UPDATE message SET is_pinned = <not the loaded value> WHERE id = ?;     *)
(* an UPDATE that matches no row raises StaleDataError.                    *)
toggle_pin_commit(r) ==
    /\ req[r].pc = "L212"
    /\ IF req[r].message_id \in Ids(db)
       THEN LET cur == RowOf(db, req[r].message_id)
                upd == [cur EXCEPT !.is_pinned = ~Val(req[r].message).is_pinned]
            IN  /\ db' = (db \ {cur}) \cup {upd}
                /\ hist' = Append(hist, [db |-> db', at |-> now])
                /\ req' = [req EXCEPT ![r].pc = "L125", ![r].commit = Len(hist'),
                                      ![r].nRepoWrites = @ + 1]
       ELSE /\ req' = [req EXCEPT ![r] = [Respond(@, 500, None) EXCEPT !.failed = "stale"]]
            /\ UNCHANGED <<db, hist>>
    /\ UNCHANGED <<fs, cache, published, now, acked, creator, removed, nfaults, started, quota>>

(* line 216 when the row was not refreshed by line 126: reload by key *)
toggle_pin_respond(r) ==
    /\ req[r].pc = "L216"
    /\ IF req[r].message_id \in Ids(db)
       THEN /\ req' = [req EXCEPT ![r] =
                 [Respond(@, 200,
                     Some([success |-> TRUE,
                           is_pinned |-> RowOf(db, req[r].message_id).is_pinned]))
                  EXCEPT !.nRepoReads = @ + 1]]
            /\ acked' = IF req[r].commit > acked THEN req[r].commit ELSE acked
       ELSE /\ req' = [req EXCEPT ![r] =
                 [Respond(@, 500, None) EXCEPT !.failed = "deleted",
                                               !.nRepoReads = @ + 1]]
            /\ acked' = acked
    /\ UNCHANGED <<db, fs, cache, published, now, hist, creator, removed, nfaults, started, quota>>

----------------------------------------------------------------------------
(* POST /delete_message/<id> *)

delete_message_get(r) ==
    /\ CanStart(r)
    /\ \E message_id \in Targets :
         req' = [req EXCEPT ![r] =
                 IF message_id \in Ids(db)
                 THEN LET message == RowOf(db, message_id)
                      IN  [IdleReq EXCEPT
                              !.kind = "delete_message",
                              !.token = started + 1,
                              !.pc = IF message.filename # None
                                        /\ Val(message.filename) # <<>>
                                     THEN "L226" ELSE "L228",
                              !.message_id = message_id,
                              !.message = Some(message),
                              !.attached = message.filename # None
                                              /\ Val(message.filename) # <<>>,
                              !.nRepoReads = 1]
                 ELSE [Respond(IdleReq, 404, None) EXCEPT
                              !.kind = "delete_message",
                              !.token = started + 1,
                              !.message_id = message_id,
                              !.nRepoReads = 1]]
    /\ started' = started + 1
    /\ quota' = quota - 1
    /\ UNCHANGED <<db, fs, cache, published, now, hist, acked, creator, removed, nfaults>>

delete_message_exists(r) ==
    /\ req[r].pc = "L226"
    /\ req' = [req EXCEPT ![r].pc =
                    IF path_exists(fs, Val(Val(req[r].message).filename))
                    THEN "L227" ELSE "L228",
                 ![r].nStoreOps = @ + 1]
    /\ UNCHANGED <<db, fs, cache, published, now, hist, acked, creator, removed, nfaults, started, quota>>

(* os.remove raises FileNotFoundError when the file went away meanwhile *)
delete_message_remove(r) ==
    /\ req[r].pc = "L227"
    /\ LET name == Val(Val(req[r].message).filename)
       IN  IF name \in DOMAIN fs
           THEN /\ fs' = Without(fs, name)
                /\ req' = [req EXCEPT ![r].pc = "L228", ![r].nStoreOps = @ + 1]
           ELSE /\ fs' = fs
                /\ req' = [req EXCEPT ![r] =
                     [Respond(@, 500, None) EXCEPT !.failed = "remove",
                                                   !.nStoreOps = @ + 1]]
    /\ UNCHANGED <<db, cache, published, now, hist, acked, creator, removed, nfaults, started, quota>>

(* DELETE FROM message WHERE id = ?; a DELETE that matches no row only     *)
(* warns, and the commit goes through.                                     *)
delete_message_commit(r) ==
    /\ req[r].pc = "L228"
    /\ IF req[r].message_id \in Ids(db)
       THEN /\ db' = db \ {RowOf(db, req[r].message_id)}
            /\ removed' = removed \cup {creator[req[r].message_id]}
            /\ creator' = Without(creator, req[r].message_id)
            /\ hist' = Append(hist, [db |-> db', at |-> now])
       ELSE UNCHANGED <<db, removed, creator, hist>>
    /\ req' = [req EXCEPT ![r].pc = "L125", ![r].commit = Len(hist'),
                          ![r].nRepoWrites = @ + 1]
    /\ UNCHANGED <<fs, cache, published, now, acked, nfaults, started, quota>>

----------------------------------------------------------------------------
(* GET /ls and GET /d<n> *)

list_files_start(r) ==
    /\ CanStart(r)
    /\ req' = [req EXCEPT ![r] = [IdleReq EXCEPT !.kind = "ls", !.pc = "L267",
                                                 !.token = started + 1]]
    /\ started' = started + 1
    /\ quota' = quota - 1
    /\ UNCHANGED <<db, fs, cache, published, now, hist, acked, creator, removed, nfaults>>

list_files(r) ==
    /\ req[r].pc = "L267"
    /\ \E entries \in listdir(fs) :
         req' = [req EXCEPT ![r] =
                   Respond([@ EXCEPT !.listdir = entries], 200,
                           Some(join(list_files_lines(fs, entries, 1))))]
    /\ UNCHANGED <<db, fs, cache, published, now, hist, acked, creator, removed, nfaults, started, quota>>

wget_download_file_start(r) ==
    /\ CanStart(r)
    /\ \E file_number \in 0..MaxFileNumber :
         req' = [req EXCEPT ![r] = [IdleReq EXCEPT !.kind = "d", !.pc = "L288",
                                                  !.token = started + 1,
                                                  !.file_number = file_number]]
    /\ started' = started + 1
    /\ quota' = quota - 1
    /\ UNCHANGED <<db, fs, cache, published, now, hist, acked, creator, removed, nfaults>>

wget_download_file(r) ==
    /\ req[r].pc = "L288"
    /\ \E entries \in listdir(fs) :
         LET is_file(f) == isfile(fs, f)
             files == SelectSeq(entries, is_file)
             rq == [req[r] EXCEPT !.listdir = entries]
         IN  req' = [req EXCEPT ![r] =
                   IF 1 <= rq.file_number /\ rq.file_number <= Len(files)
                   THEN Respond(rq, 200, Some(files[rq.file_number]))
                   ELSE Respond(rq, 404, Some(FileNotFound))]
    /\ UNCHANGED <<db, fs, cache, published, now, hist, acked, creator, removed, nfaults, started, quota>>

----------------------------------------------------------------------------

Arrivals(r) ==
    \/ StartRead(r)
    \/ upload_message_start(r)
    \/ toggle_pin_get(r)
    \/ delete_message_get(r)

Steps(r) ==
    \/ get_cached_messages_get(r)
    \/ get_cached_messages_query(r)
    \/ get_cached_messages_set(r)
    \/ upload_message_exists(r)
    \/ upload_message_loop(r)
    \/ upload_message_save(r)
    \/ upload_message_getsize(r)
    \/ upload_message_commit(r)
    \/ toggle_pin_commit(r)
    \/ toggle_pin_respond(r)
    \/ delete_message_exists(r)
    \/ delete_message_remove(r)
    \/ delete_message_commit(r)
    \/ clear_message_cache_delete(r)
    \/ clear_message_cache_query(r)
    \/ clear_message_cache_set(r)
    \/ clear_message_cache_emit(r)

Failures(r) ==
    \/ upload_message_save_fails(r)
    \/ clear_message_cache_query_fails(r)
    \/ clear_message_cache_emit_fails(r)

(* Concurrent reads and mutations of the message list, with store          *)
(* failures; the clock stands still.                                       *)
Next == \E r \in Requests : Arrivals(r) \/ Steps(r) \/ Failures(r)

Spec == Init /\ [][Next]_vars

InitPair == Start(MaxPairReq)

SpecPair == InitPair /\ [][Next]_vars

(* Reads and pin toggles while time passes *)
InitClock == Start(MaxClockReq)

NextClock ==
    \/ Tick
    \/ \E r \in Requests :
        \/ StartRead(r)
        \/ get_cached_messages_get(r)
        \/ get_cached_messages_query(r)
        \/ get_cached_messages_set(r)
        \/ toggle_pin_get(r)
        \/ toggle_pin_commit(r)
        \/ clear_message_cache_delete(r)
        \/ clear_message_cache_query(r)
        \/ clear_message_cache_set(r)
        \/ clear_message_cache_emit(r)

SpecClock == InitClock /\ [][NextClock]_vars

(* Uploads and deletes, one request at a time: a request arrives only     *)
(* when none is in progress                                                *)
InitSeq == Start(MaxSeqReq)

Quiet == \A q \in Requests : Free(q)

upload_message_alone(r) == Quiet /\ upload_message_start(r)

delete_message_alone(r) == Quiet /\ delete_message_get(r)

NextSeq ==
    \E r \in Requests :
        \/ upload_message_alone(r)
        \/ upload_message_exists(r)
        \/ upload_message_loop(r)
        \/ upload_message_save(r)
        \/ upload_message_getsize(r)
        \/ upload_message_commit(r)
        \/ delete_message_alone(r)
        \/ delete_message_exists(r)
        \/ delete_message_remove(r)
        \/ delete_message_commit(r)
        \/ clear_message_cache_delete(r)
        \/ clear_message_cache_query(r)
        \/ clear_message_cache_set(r)
        \/ clear_message_cache_emit(r)

SpecSeq == InitSeq /\ [][NextSeq]_vars

(* Uploads and deletes alone, in any interleaving *)
InitFiles == Start(MaxFilesReq)

NextFiles ==
    \E r \in Requests :
        \/ upload_message_start(r)
        \/ upload_message_exists(r)
        \/ upload_message_loop(r)
        \/ upload_message_save(r)
        \/ upload_message_getsize(r)
        \/ upload_message_commit(r)
        \/ delete_message_get(r)
        \/ delete_message_exists(r)
        \/ delete_message_remove(r)
        \/ delete_message_commit(r)
        \/ clear_message_cache_delete(r)
        \/ clear_message_cache_query(r)
        \/ clear_message_cache_set(r)
        \/ clear_message_cache_emit(r)

SpecFiles == InitFiles /\ [][NextFiles]_vars

(* Uploads with form fields of every shape, one request at a time *)
InitForms == Start(MaxFormReq)

upload_message_posted(r) ==
    Quiet /\ \E inp \in FormInputs : upload_message_form(r, inp)

NextForms ==
    \E r \in Requests :
        \/ upload_message_posted(r)
        \/ upload_message_exists(r)
        \/ upload_message_loop(r)
        \/ upload_message_save(r)
        \/ upload_message_getsize(r)
        \/ upload_message_commit(r)
        \/ clear_message_cache_delete(r)
        \/ clear_message_cache_query(r)
        \/ clear_message_cache_set(r)
        \/ clear_message_cache_emit(r)

SpecForms == InitForms /\ [][NextForms]_vars

(* The listing routes over an upload directory whose content does not     *)
(* change: any of three names, each a regular file or a subdirectory       *)
ListNames == { NameA, <<98>>, <<115>> }      \* "a.t", "b", "s"

DirContents == UNION { [S -> {0, Directory}] : S \in SUBSET ListNames }

InitList ==
    /\ quota = MaxListReq
    /\ fs \in DirContents
    /\ db = {}
    /\ creator = EmptyFn
    /\ cache = None
    /\ published = <<>>
    /\ now = 0
    /\ req = [r \in Requests |-> IdleReq]
    /\ started = 0
    /\ hist = <<[db |-> db, at |-> 0]>>
    /\ acked = 1
    /\ removed = {}
    /\ nfaults = 0

NextList ==
    \E r \in Requests :
        \/ list_files_start(r)
        \/ list_files(r)
        \/ wget_download_file_start(r)
        \/ wget_download_file(r)

SpecList == InitList /\ [][NextList]_vars

(* The sanitizer alone: a call on a name drawn from SampleNames, then a    *)
(* call on what the first call returned                                    *)
SampleChars ==
    { 97, 122, 65, 90, 48, 57,        \* a z A Z 0 9
      19968, 40869,                   \* the first and last character of 4e00-9fa5
      DOT, DASH, UNDERSCORE,
      SLASH, SPACE, 64, 96, 123,      \* / space @ ` {
      233, 19967, 40870 }             \* e-acute, and the neighbours of 4e00-9fa5

SampleNames == UNION { [1..n -> SampleChars] : n \in 0..MaxNameLen }

InitSanitize ==
    /\ quota = 0
    /\ db = {OldMessage}
    /\ fs = (NameA :> 0)
    /\ creator = (1 :> 0)
    /\ cache = None
    /\ published = <<>>
    /\ now = 0
    /\ \E name \in SampleNames :
         req = [r \in Requests |->
                  IF r = 1
                  THEN [IdleReq EXCEPT !.kind = "sanitize", !.pc = "L106",
                                       !.original_filename = Some(name)]
                  ELSE IdleReq]
    /\ started = 0
    /\ hist = <<[db |-> db, at |-> 0]>>
    /\ acked = 1
    /\ removed = {}
    /\ nfaults = 0

custom_secure_filename_call(r) ==
    /\ req[r].pc = "L106"
    /\ req' = [req EXCEPT ![r].pc = "L107",
                 ![r].filename = Some(custom_secure_filename(Val(req[r].original_filename)))]
    /\ UNCHANGED <<db, fs, cache, published, now, hist, acked, creator, removed, nfaults, started, quota>>

custom_secure_filename_again(r) ==
    /\ req[r].pc = "L107"
    /\ req' = [req EXCEPT ![r].pc = "done",
                 ![r].candidate = custom_secure_filename(Val(req[r].filename))]
    /\ UNCHANGED <<db, fs, cache, published, now, hist, acked, creator, removed, nfaults, started, quota>>

NextSanitize ==
    \E r \in Requests :
        \/ custom_secure_filename_call(r)
        \/ custom_secure_filename_again(r)

SpecSanitize == InitSanitize /\ [][NextSanitize]_vars

----------------------------------------------------------------------------
(* Properties *)

Mutators == {"upload", "toggle_pin", "delete_message"}

Answered(r) == req[r].pc = "done"

(* messages is the full list of the table as it stood at version v *)
SnapshotOf(messages, v) == messages \in ListAll(hist[v].db)

(* messages is the full list of some table version from v on *)
NotOlderThan(messages, v) == \E w \in v..Len(hist) : SnapshotOf(messages, w)

(* C1: a Read that arrives after a mutation has been answered returns the  *)
(* full list of a table state that already contains that mutation (floor   *)
(* is the newest answered version at the time the Read arrived).           *)
C1_CacheLinearizable ==
    \A r \in Requests :
        (req[r].kind = "read" /\ Answered(r) /\ req[r].status = 200)
            => NotOlderThan(Val(req[r].body), req[r].floor)

(* the update_messages events that request r emitted *)
PublishedBy(r) == { i \in 1..Len(published) : published[i].by = req[r].token }

(* C2: every mutation answered with success ran clear_message_cache once   *)
(* and emitted one update_messages event, and the event carries the full   *)
(* list of a table state that contains the mutation's own commit.          *)
C2_BroadcastComplete ==
    \A r \in Requests :
        (req[r].kind \in Mutators /\ Answered(r) /\ req[r].status = 200)
            => /\ req[r].nInvalidate = 1
               /\ req[r].nPublish = 1
               /\ Cardinality(PublishedBy(r)) = 1
               /\ req[r].commit > 0
               /\ \A i \in PublishedBy(r) :
                      NotOlderThan(published[i].messages, req[r].commit)

(* an upload was answered with success while another request's commit      *)
(* followed its own                                                        *)
C2_Witness ==
    \E r \in Requests :
        /\ req[r].kind = "upload" /\ Answered(r) /\ req[r].status = 200
        /\ req[r].commit < Len(hist)
        /\ PublishedBy(r) # {}

(* C3: the cache entry is absent or is the full list of a table state      *)
(* that was still current at some moment of the last CACHE_TIMEOUT         *)
(* seconds.                                                                *)
C3_CacheContent ==
    cache # None =>
        \E v \in 1..Len(hist) :
            /\ SnapshotOf(Val(cache).messages, v)
            /\ v = Len(hist) \/ now - hist[v+1].at <= CACHE_TIMEOUT

(* C4: an upload never writes over a file that is already in the store,    *)
(* and no two rows of the table carry the same stored filename.            *)
C4_StoredNameUnique ==
    /\ \A r \in Requests : ~req[r].overwrote
    /\ \A m1, m2 \in db :
          (m1 # m2 /\ m1.filename # None) => m1.filename # m2.filename

(* C5: the store never holds bytes written for a message that has been     *)
(* deleted; a delete_message answered with success on a message with a     *)
(* filename has looked the file up, and the bytes of that message are      *)
(* gone; a delete_message on a message without filename performs no store  *)
(* operation.                                                              *)
C5_AttachmentLinkage ==
    /\ \A n \in DOMAIN fs : fs[n] \notin removed
    /\ \A r \in Requests :
          req[r].kind = "delete_message" =>
              /\ ~req[r].attached => req[r].nStoreOps = 0
              /\ (req[r].attached /\ Answered(r) /\ req[r].status = 200)
                    => req[r].nStoreOps >= 1

(* some worker takes a toggle_pin or delete_message request in this step *)
Arrives(r, kinds) ==
    /\ started' = started + 1
    /\ req'[r].token = started'
    /\ req'[r].kind \in kinds

(* C6: toggle_pin or delete_message on an id that is not in the table is   *)
(* answered 404 at once; the table, the store, the cache entry with its    *)
(* expiry and the published events are as before, and the request has     *)
(* invalidated, published and written nothing.                             *)
C6_UnknownIdUnchanged ==
    [][\A r \in Requests :
          (Arrives(r, {"toggle_pin", "delete_message"})
              /\ req'[r].message_id \notin Ids(db))
          => /\ req'[r].pc = "done" /\ req'[r].status = 404
             /\ req'[r].nInvalidate = 0 /\ req'[r].nPublish = 0
             /\ req'[r].nStoreOps = 0 /\ req'[r].nRepoWrites = 0
             /\ UNCHANGED <<db, fs, cache, published, hist>>]_vars

(* an unknown id was answered 404 while the cache holds a snapshot *)
C6_Witness ==
    \E r \in Requests :
        /\ req[r].kind \in {"toggle_pin", "delete_message"}
        /\ Answered(r) /\ req[r].status = 404
        /\ req[r].message_id \notin Ids(db)
        /\ cache # None

(* C7: a mutation whose write is committed is answered with success even   *)
(* when the query or the emit inside clear_message_cache fails.            *)
C7_SuccessDespiteRebuildFailure ==
    \A r \in Requests :
        (req[r].kind \in Mutators /\ Answered(r) /\ req[r].commit > 0
            /\ req[r].failed \in {"rebuild", "publish"})
        => req[r].status = 200

(* C8: when the query inside clear_message_cache fails, the cache is left  *)
(* without a valid snapshot, so that no Read is served a list older than   *)
(* the mutation: the entry is absent, or at least not older than the       *)
(* request's commit.                                                       *)
C8_FailedRebuildLeavesExpired ==
    [][\A r \in Requests :
          (req[r].pc = "L126" /\ req'[r].failed = "rebuild")
          => \/ cache' = None
             \/ NotOlderThan(Val(cache').messages, req[r].commit)]_vars

(* C9: a Read changes neither the table, the store nor the published       *)
(* events; on an unexpired entry it answers with the entry and makes no    *)
(* query; on a miss it queries the table once and installs the full list   *)
(* with expiry now + CACHE_TIMEOUT; when it has answered, the cache holds  *)
(* an unexpired entry, so an immediate second Read makes no query.         *)
Step(r) == req[r].kind = "read" /\ ~Free(r) /\ req'[r] # req[r]

C9_ReadPath ==
    [][\A r \in Requests :
          Step(r) =>
            /\ UNCHANGED <<db, fs, published, hist>>
            /\ (req[r].pc = "L113" /\ cache # None) =>
                  /\ Answered(r)' /\ req'[r].status = 200
                  /\ req'[r].body = Some(Val(cache).messages)
                  /\ req'[r].nRepoReads = 0
                  /\ cache' = cache
            /\ (req[r].pc = "L113" /\ cache = None) =>
                  /\ req'[r].pc = "L115" /\ cache' = cache
            /\ req[r].pc = "L115" =>
                  /\ SnapshotOf(req'[r].messages, Len(hist))
                  /\ req'[r].nRepoReads = 1
                  /\ cache' = cache
            /\ req[r].pc = "L118" =>
                  /\ cache' = Some([messages |-> req[r].messages,
                                    exp |-> now + CACHE_TIMEOUT])
                  /\ req'[r].body = Some(req[r].messages)
                  /\ req'[r].nRepoReads = 1
            /\ Answered(r)' => (cache' # None /\ Val(cache').exp > now')]_vars

(* a Read was answered from the cache, without a query, after time had     *)
(* passed since the entry was installed                                    *)
C9_Witness ==
    \E r \in Requests :
        /\ req[r].kind = "read" /\ Answered(r) /\ req[r].nRepoReads = 0
        /\ cache # None /\ req[r].body = Some(Val(cache).messages)
        /\ Val(cache).exp < now + CACHE_TIMEOUT

(* the name a save of candidate must get in a store with the given         *)
(* contents: the candidate when it is free, else base(k)ext for the        *)
(* smallest k >= 1 that is free                                            *)
FirstFreeName(store, candidate) ==
    LET base == splitext(candidate)[1]
        ext  == splitext(candidate)[2]
        free(k) == ~path_exists(store, numbered_name(base, k, ext))
        k0 == CHOOSE k \in 1..(Cardinality(DOMAIN store) + 1) :
                  free(k) /\ \A j \in 1..(k-1) : ~free(j)
    IN  IF ~path_exists(store, candidate) THEN candidate
        ELSE numbered_name(base, k0, ext)

NameA1 == <<97, LPAREN, DIGIT0 + 1, RPAREN, DOT, 116>>    \* "a(1).t"
NameA2 == <<97, LPAREN, DIGIT0 + 2, RPAREN, DOT, 116>>    \* "a(2).t"

(* C10: with one request at a time, an upload saves under the candidate    *)
(* name when no such file exists and otherwise under base(k)ext for the    *)
(* smallest free k >= 1, judged by the store's contents at save time, and  *)
(* the message row carries that name.                                      *)
C10_CollisionResolution ==
    /\ \A r \in Requests :
          (req[r].kind = "upload" /\ req[r].pc = "L187")
              => /\ req[r].save_path = FirstFreeName(fs, req[r].candidate)
                 /\ req[r].filename = Some(req[r].save_path)
    /\ \A r \in Requests :
          (req[r].kind = "upload" /\ req[r].attached
              /\ req[r].pc \in {"L188", "L198"})
              => /\ req[r].save_path \in DOMAIN fs
                 /\ fs[req[r].save_path] = req[r].token
                 /\ ~req[r].overwrote
                 /\ req[r].filename = Some(req[r].save_path)

(* "a.t" was saved three times: the rows, oldest first, carry "a.t",       *)
(* "a(1).t" and "a(2).t"                                                   *)
C10_Witness ==
    /\ DOMAIN fs = {NameA, NameA1, NameA2}
    /\ \E m1, m2, m3 \in db :
          /\ m1.id = 1 /\ m1.filename = Some(NameA)
          /\ m2.id = 2 /\ m2.filename = Some(NameA1)
          /\ m3.id = 3 /\ m3.filename = Some(NameA2)

(* C11: a delete_message on a message with a filename never fails because  *)
(* the attachment file is absent: unless the cache rebuild or the emit     *)
(* failed, it has issued its DELETE and is answered with success.          *)
C11_IdempotentAttachmentDelete ==
    \A r \in Requests :
        (req[r].kind = "delete_message" /\ req[r].attached /\ Answered(r)
            /\ req[r].failed \notin {"rebuild", "publish"})
        => /\ req[r].status = 200
           /\ req[r].nRepoWrites = 1

Present(o) == o # None

(* C12: in every row of the table, filename is present exactly when        *)
(* file_size is present and exactly when original_filename is present; the *)
(* row made by an upload that carried no file has none of the three,       *)
(* whatever its text and new_filename fields were.                         *)
C12_AttachmentFields ==
    /\ \A m \in db :
          /\ Present(m.filename) <=> Present(m.file_size)
          /\ Present(m.filename) <=> Present(m.original_filename)
    /\ \A r \in Requests :
          (req[r].kind = "upload" /\ ~req[r].attached /\ req[r].commit > 0)
              => \A m \in db :
                    creator[m.id] = req[r].token
                        => /\ ~Present(m.filename)
                           /\ ~Present(m.file_size)
                           /\ ~Present(m.original_filename)

(* an upload with a new_filename but no file has inserted its row next to  *)
(* a row that has an attachment                                            *)
C12_Witness ==
    \E r \in Requests :
        /\ req[r].kind = "upload" /\ req[r].pc = "L125" /\ ~req[r].attached
        /\ Present(req[r].new_filename)
        /\ \E m \in db : creator[m.id] = req[r].token /\ ~Present(m.filename)
        /\ \E m \in db : Present(m.filename) /\ Present(m.file_size)

(* the regular files among entries, in the order of entries *)
RegularFiles(store, entries) ==
    LET is_file(f) == isfile(store, f) IN SelectSeq(entries, is_file)

(* one line d{n}. {filename} per regular file, n running from 1 *)
NumberedListing(files) == join([n \in 1..Len(files) |-> list_line(n, files[n])])

(* line is one of the newline-separated lines of text *)
HasLine(text, line) ==
    LET hay    == <<NEWLINE>> \o text \o <<NEWLINE>>
        needle == <<NEWLINE>> \o line \o <<NEWLINE>>
    IN  \E i \in 1..(Len(hay) - Len(needle) + 1) :
            SubSeq(hay, i, i + Len(needle) - 1) = needle

(* C13: over an upload directory whose content is fixed, GET /ls returns   *)
(* one line d{n}. {filename} per regular file, n running 1..k in the       *)
(* enumeration order; GET /d{n} with n in 1..k serves the n-th regular     *)
(* file of the enumeration and with any other n answers "File not found"   *)
(* with status 404; under the same enumeration, the file that /d{n} serves *)
(* is the one that /ls labels d{n}.                                        *)
C13_ListingIndexAgreement ==
    /\ \A r \in Requests :
          (req[r].kind = "ls" /\ Answered(r))
              => req[r].body = Some(NumberedListing(RegularFiles(fs, req[r].listdir)))
    /\ \A q \in Requests :
          (req[q].kind = "d" /\ Answered(q))
              => LET files == RegularFiles(fs, req[q].listdir)
                 IN  IF req[q].file_number \in 1..Len(files)
                     THEN /\ req[q].status = 200
                          /\ req[q].body = Some(files[req[q].file_number])
                     ELSE /\ req[q].status = 404
                          /\ req[q].body = Some(FileNotFound)
    /\ \A r, q \in Requests :
          (/\ req[r].kind = "ls" /\ Answered(r)
           /\ req[q].kind = "d" /\ Answered(q) /\ req[q].status = 200
           /\ req[r].listdir = req[q].listdir)
              => HasLine(Val(req[r].body),
                         list_line(req[q].file_number, Val(req[q].body)))

(* the text after the last "." of a name, empty when the name has no "." *)
TextAfterLastDot(name) ==
    IF \E i \in 1..Len(name) : name[i] = DOT
    THEN SubSeq(name, LastIndexOf(name, DOT) + 1, Len(name))
    ELSE <<>>

(* C14: an upload with a file named F and a non-empty new_filename N gets  *)
(* the candidate name sanitize(N) "." ext, where ext is the text after the *)
(* last "." of F and is empty when F has no ".", which leaves the          *)
(* candidate with a trailing dot.                                          *)
C14_RenameExtension ==
    \A r \in Requests :
        (/\ req[r].kind = "upload" /\ req[r].pc = "L177"
         /\ Present(req[r].new_filename) /\ Val(req[r].new_filename) # <<>>)
        => req[r].candidate =
              custom_secure_filename(Val(req[r].new_filename))
                  \o <<DOT>> \o TextAfterLastDot(Val(req[r].original_filename))

(* letters, digits, the characters 4e00-9fa5 and . - _ *)
Letter(c) == c \in 97..122 \/ c \in 65..90

Digit(c) == c \in 48..57

Cjk(c) == c \in 19968..40869

Clean(c) == Letter(c) \/ Digit(c) \/ Cjk(c) \/ c \in {DOT, DASH, UNDERSCORE}

(* name with every character that is not Clean taken out *)
RECURSIVE Kept(_)
Kept(name) ==
    IF name = <<>> THEN <<>>
    ELSE (IF Clean(Head(name)) THEN <<Head(name)>> ELSE <<>>) \o Kept(Tail(name))

(* C15: for every name, the empty one included, custom_secure_filename     *)
(* returns the name with exactly the characters outside letters, digits,   *)
(* 4e00-9fa5 and . - _ deleted and the others in their original order; a   *)
(* name that has only such characters comes back as it is, and so does     *)
(* every output of the sanitizer when it is sanitized again.               *)
C15_SanitizerTotalIdempotent ==
    \A r \in Requests :
        /\ (req[r].kind = "sanitize" /\ req[r].pc \in {"L107", "done"})
              => LET name == Val(req[r].original_filename)
                     out  == Val(req[r].filename)
                 IN  /\ out = Kept(name)
                     /\ \A i \in 1..Len(out) : Clean(out[i])
                     /\ (\A i \in 1..Len(name) : Clean(name[i])) => out = name
        /\ (req[r].kind = "sanitize" /\ req[r].pc = "done")
              => req[r].candidate = Val(req[r].filename)

(* a name that loses its first and last character and keeps the middle one *)
(* has been sanitized twice                                                *)
C15_Witness ==
    \E r \in Requests :
        /\ req[r].kind = "sanitize" /\ req[r].pc = "done"
        /\ Val(req[r].original_filename) = <<SLASH, 40869, 40870>>
        /\ req[r].candidate = <<40869>>

(* the toggle_pin requests on message id that have been answered with      *)
(* success                                                                 *)
ToggledOk(id) ==
    { r \in Requests : /\ req[r].kind = "toggle_pin" /\ req[r].message_id = id
                       /\ Answered(r) /\ req[r].status = 200 }

(* C16: every toggle_pin answered with success has flipped is_pinned of    *)
(* its message once, and its response carries the value its own commit     *)
(* stored; when the n requests received so far are all successful toggles  *)
(* of the message the service started with, whose is_pinned was FALSE,     *)
(* is_pinned is TRUE exactly when n is odd.                                *)
C16_PinToggleAtomic ==
    /\ \A r \in Requests :
          (req[r].kind = "toggle_pin" /\ Answered(r) /\ req[r].status = 200)
              => LET before == RowOf(hist[req[r].commit - 1].db, req[r].message_id)
                     after  == RowOf(hist[req[r].commit].db, req[r].message_id)
                 IN  /\ after.is_pinned = ~before.is_pinned
                     /\ Val(req[r].body).is_pinned = after.is_pinned
    /\ (started > 0 /\ Cardinality(ToggledOk(OldMessage.id)) = started)
          => RowOf(db, OldMessage.id).is_pinned = (started % 2 = 1)

(* the fields of a row other than is_pinned *)
NonPin(m) ==
    [id |-> m.id, text |-> m.text, filename |-> m.filename,
     original_filename |-> m.original_filename, file_size |-> m.file_size,
     timestamp |-> m.timestamp]

(* C17: no step of a toggle_pin request changes the attachment store, the  *)
(* set of message ids, any row other than the one with the request's id,   *)
(* or any field of that row other than is_pinned; and no step of any       *)
(* request changes a field other than is_pinned of a row that stays in the *)
(* table.                                                                  *)
C17_PinToggleFrame ==
    [][/\ \A r \in Requests :
            (req'[r] # req[r] /\ req'[r].kind = "toggle_pin")
            => /\ fs' = fs
               /\ Ids(db') = Ids(db)
               /\ \A m \in db : m.id # req'[r].message_id => m \in db'
               /\ (req[r].pc = "L212" /\ req'[r].pc = "L125")
                     => /\ RowOf(db', req[r].message_id).is_pinned
                              = ~Val(req[r].message).is_pinned
                        /\ NonPin(RowOf(db', req[r].message_id))
                              = NonPin(RowOf(db, req[r].message_id))
       /\ \A m \in db : \A n \in db' : m.id = n.id => NonPin(m) = NonPin(n)]_vars

(* a toggle_pin has been answered with success and left the message        *)
(* pinned, next to a second message and with the attachment still stored   *)
C17_Witness ==
    \E r \in Requests :
        /\ req[r].kind = "toggle_pin" /\ Answered(r) /\ req[r].status = 200
        /\ req[r].message_id \in Ids(db)
        /\ RowOf(db, req[r].message_id).is_pinned
        /\ Cardinality(db) = 2
        /\ NameA \in DOMAIN fs

(* C18: when file.save fails, the upload ends as a failed request: it is   *)
(* answered 500 and has inserted no row, invalidated nothing and published *)
(* nothing, and the failing step leaves the table, the cache entry and the *)
(* published events as they were.                                          *)
C18_FailedSaveInsertsNothing ==
    [][\A r \in Requests :
          req'[r].failed = "save"
          => /\ req'[r].kind = "upload"
             /\ req'[r].pc = "done" /\ req'[r].status = 500
             /\ req'[r].commit = 0 /\ req'[r].nRepoWrites = 0
             /\ req'[r].nInvalidate = 0 /\ req'[r].nPublish = 0
             /\ \A m \in db' : creator'[m.id] # req'[r].token
             /\ req[r].failed # "save" => UNCHANGED <<db, cache, published, hist>>]_vars

(* an upload's file.save has failed while the cache held a snapshot, and   *)
(* the snapshot is still the full list of the unchanged table              *)
C18_Witness ==
    \E r \in Requests :
        /\ req[r].kind = "upload" /\ req[r].failed = "save" /\ Answered(r)
        /\ cache # None /\ SnapshotOf(Val(cache).messages, Len(hist))
        /\ db = {OldMessage}

(* C19: when no request is in progress and no store call has failed, the   *)
(* cache entry, if there is one, is the full list of the table as it       *)
(* stands, and so is the list of the update_messages event published       *)
(* last.                                                                   *)
C19_QuiescentConvergence ==
    (Quiet /\ nfaults = 0)
        => /\ cache # None => SnapshotOf(Val(cache).messages, Len(hist))
           /\ published # <<>>
                 => SnapshotOf(published[Len(published)].messages, Len(hist))

(* a delete_message request that loaded row m is still in progress *)
BeingDeleted(m) ==
    \E r \in Requests :
        req[r].kind = "delete_message" /\ ~Free(r) /\ req[r].message = Some(m)

(* C20: with uploads and deletes only, every row that has a filename and   *)
(* is not in the middle of its own delete names a file that is in the      *)
(* store and holds the bytes of the upload that made the row; so no        *)
(* delete of another message has removed the file and no other upload has  *)
(* written over it.                                                        *)
C20_MessageFileIntegrity ==
    \A m \in db :
        (Present(m.filename) /\ ~BeingDeleted(m))
            => /\ Val(m.filename) \in DOMAIN fs
               /\ fs[Val(m.filename)] = creator[m.id]

====
